---- MODULE Spec2Model ----
(***************************************************************************)
(* Model of turtlelib::KalmanFilter (src/turtlelib/src/kalman.cpp).        *)
(*                                                                         *)
(* Number domain.  The filter works on doubles; the model works on the     *)
(* exact sub-grid on which every operation of the code is exact:           *)
(*   - angles are whole numbers of quarter turns (1 = pi/2 rad), so that   *)
(*     std::cos / std::sin take the values -1, 0, 1;                       *)
(*   - lengths are whole metres;                                           *)
(*   - a twist's xdot is the pair <<a, b>> standing for a + b*(pi/2), so   *)
(*     that xdot / thetadot is a whole number for the rotating twists the  *)
(*     model draws (a = 0 and thetadot divides b).                         *)
(* A column vector (arma::mat n x 1) is a sequence of numbers, a matrix a  *)
(* sequence of rows.  Matrix indices are 0-based as in the code; At reads  *)
(* a 0-based row.                                                          *)
(***************************************************************************)
EXTENDS Integers, Sequences, FiniteSets, TLC

\* ---------------------------------------------------------------- bounds
\* number of distinct marker ids the sensor can report
NumIds == 2
\* longest measurement list handed to one update call
MaxBatch == 2
\* largest forward speed / turning radius of a twist
MaxXdot == 1

\* ---------------------------------------------------------------- inputs
MarkerIds == 5..(4 + NumIds)
Ranges == {1}
Bearings == {0, 1}
LandmarkMeasurement == [r : Ranges, phi : Bearings, marker_id : MarkerIds]

RECURSIVE SeqsUpTo(_, _)
SeqsUpTo(S, n) ==
    IF n = 0 THEN {<<>>}
    ELSE LET shorter == SeqsUpTo(S, n - 1)
         IN shorter \cup {Append(s, e) : s \in {t \in shorter : Len(t) = n - 1}, e \in S}

Batches == SeqsUpTo(LandmarkMeasurement, MaxBatch)

\* straight twists (thetadot = 0, xdot = a) and rotating twists
\* (thetadot = q quarter turns, xdot = k*q*(pi/2), so xdot/thetadot = k)
Twist2D ==
    {[thetadot |-> 0, xdot |-> <<a, 0>>] : a \in 0..MaxXdot}
    \cup {[thetadot |-> q, xdot |-> <<0, k * q>>] : q \in {-1, 1, 2}, k \in 0..MaxXdot}

\* ------------------------------------------------------- numeric helpers
\* angle wrapped into (-pi, pi], in quarter turns: -1, 0, 1, 2
NormalizeAngle(q) == ((q + 1) % 4) - 1

AlmostEqual(a, b) == a = b

Cos(q) ==
    CASE NormalizeAngle(q) = 0 -> 1
      [] NormalizeAngle(q) = 2 -> -1
      [] OTHER -> 0

Sin(q) ==
    CASE NormalizeAngle(q) = 1 -> 1
      [] NormalizeAngle(q) = -1 -> -1
      [] OTHER -> 0

\* V.xdot in the branch thetadot = 0, and V.xdot / V.thetadot in the other
XdotOf(V) == V.xdot[1]
XdotOverThetadot(V) == V.xdot[2] \div V.thetadot

\* -------------------------------------------------------- matrix helpers
Zeros(n, m) == [i \in 1..n |-> [j \in 1..m |-> 0]]
ZeroCol(n) == [i \in 1..n |-> 0]
Eye(n) == [i \in 1..n |-> [j \in 1..n |-> IF i = j THEN 1 ELSE 0]]
NRows(M) == Len(M)
NCols(M) == IF Len(M) = 0 THEN 0 ELSE Len(M[1])

RECURSIVE DotUpTo(_, _, _, _, _)
DotUpTo(A, B, i, j, k) ==
    IF k = 0 THEN 0 ELSE DotUpTo(A, B, i, j, k - 1) + A[i][k] * B[k][j]

MatMul(A, B) == [i \in 1..NRows(A) |-> [j \in 1..NCols(B) |-> DotUpTo(A, B, i, j, NCols(A))]]
MatAdd(A, B) == [i \in 1..NRows(A) |-> [j \in 1..NCols(A) |-> A[i][j] + B[i][j]]]
Transpose(A) == [j \in 1..NCols(A) |-> [i \in 1..NRows(A) |-> A[i][j]]]

\* 0-based element access of a column vector, as Xi_hat(i, 0)
InBounds(X, i) == i >= 0 /\ i < Len(X)
At(X, i) == X[i + 1]

\* ----------------------------------------------------------------- state
VARIABLES
    qt_hat,         \* 3x1 predicted robot state (theta, x, y)
    mt_hat,         \* predicted map state
    Xi_hat,         \* full state prediction
    sigma_hat,      \* covariance matrix
    Q_mat,          \* process noise matrix
    landmarks_dict, \* marker id -> 0-based row of the landmark's x component
    arma_debug,     \* TRUE when the build keeps Armadillo's element-access checks
    last_call,      \* the call that produced this state, and how it ended
    nusim,          \* the members of the Nusim node, and what it last published
    slam,           \* the members of the Slam node, and what it last broadcast
    circle          \* the members of the Circle node, and what it published

ekfVars == <<qt_hat, mt_hat, Xi_hat, sigma_hat, Q_mat, landmarks_dict, arma_debug, last_call>>
otherNodes == <<slam, circle>>
vars == <<ekfVars, nusim, otherNodes>>

\* ----------------------------------------------------------- constructor
Ones(n, m) == [i \in 1..n |-> [j \in 1..m |-> 1]]
\* Q_mat filled with ones instead of zeros
OnesQ == Ones(3, 3)
\* Q_mat(arma::mat{3, 3, arma::fill::zeros})
InitQ == Zeros(3, 3)

KalmanFilterInit ==
    /\ qt_hat = ZeroCol(3)
    /\ mt_hat = <<>>
    /\ Xi_hat = qt_hat
    /\ sigma_hat = Zeros(3, 3)
    /\ Q_mat = InitQ
    /\ landmarks_dict = <<>>
    /\ last_call = [op |-> "construct"]

\* the filter on its own: no simulator node exists
Init ==
    /\ KalmanFilterInit
    /\ arma_debug \in BOOLEAN
    /\ nusim = [op |-> "absent"]
    /\ slam = [op |-> "absent"]
    /\ circle = [op |-> "absent"]

\* --------------------------------------------------------------- predict
\* what a double holds after a division by zero (inf or nan): a reserved code
\* far outside the finite values the model can hold
NaN == 0 - 2^30
IsFinite(x) == x /= NaN

\* predict without the branch on almost_equal(V.thetadot, 0): the rotating
\* formulas divide by thetadot for every twist
PredictPoseUnguarded(Xi, V) ==
    IF V.thetadot = 0
    THEN << NormalizeAngle(At(Xi, 0) + V.thetadot), NaN, NaN >>
    ELSE << NormalizeAngle(At(Xi, 0) + V.thetadot),
            At(Xi, 1) - XdotOverThetadot(V) * Sin(At(Xi, 0))
                      + XdotOverThetadot(V) * Sin(At(Xi, 0) + V.thetadot),
            At(Xi, 2) + XdotOverThetadot(V) * Cos(At(Xi, 0))
                      - XdotOverThetadot(V) * Cos(At(Xi, 0) + V.thetadot) >>

\* qt_hat_new of predict, computed from Xi_hat and the twist
PredictPose(Xi, V) ==
    IF AlmostEqual(V.thetadot, 0)
    THEN << 0,
            At(Xi, 1) + XdotOf(V) * Cos(At(Xi, 0)),
            At(Xi, 2) + XdotOf(V) * Sin(At(Xi, 0)) >>
    ELSE << NormalizeAngle(At(Xi, 0) + V.thetadot),
            At(Xi, 1) - XdotOverThetadot(V) * Sin(At(Xi, 0))
                      + XdotOverThetadot(V) * Sin(At(Xi, 0) + V.thetadot),
            At(Xi, 2) + XdotOverThetadot(V) * Cos(At(Xi, 0))
                      - XdotOverThetadot(V) * Cos(At(Xi, 0) + V.thetadot) >>

\* A_t of predict after A_t = eye + A_t
PredictJacobian(Xi, V) ==
    LET a10 == IF AlmostEqual(V.thetadot, 0)
               THEN 0 - XdotOf(V) * Sin(At(Xi, 0))
               ELSE 0 - XdotOverThetadot(V) * Cos(At(Xi, 0))
                      + XdotOverThetadot(V) * Cos(At(Xi, 0) + V.thetadot)
        a20 == IF AlmostEqual(V.thetadot, 0)
               THEN XdotOf(V) * Cos(At(Xi, 0))
               ELSE 0 - XdotOverThetadot(V) * Sin(At(Xi, 0))
                      + XdotOverThetadot(V) * Sin(At(Xi, 0) + V.thetadot)
        A == << <<0, 0, 0>>, <<a10, 0, 0>>, <<a20, 0, 0>> >>
    IN MatAdd(Eye(3), A)

\* sigma_hat = (A_t * sigma_hat * A_t.t()) + Q_mat
PropagateCovariance(A, sigma, Q) == MatAdd(MatMul(MatMul(A, sigma), Transpose(A)), Q)

predict(V) ==
    /\ qt_hat' = PredictPose(Xi_hat, V)
    /\ sigma_hat' = PropagateCovariance(PredictJacobian(Xi_hat, V), sigma_hat, Q_mat)
    /\ last_call' = [op |-> "predict", V |-> V]
    /\ UNCHANGED <<mt_hat, Xi_hat, Q_mat, landmarks_dict, arma_debug, nusim, otherNodes>>

\* ---------------------------------------------------------------- update
\* update_measurements without the test for an already known marker id
AlwaysAppend(Xi, dict, m) ==
    LET mx_j == At(Xi, 1) + m.r * Cos(NormalizeAngle(m.phi + At(Xi, 0)))
        my_j == At(Xi, 2) + m.r * Sin(NormalizeAngle(m.phi + At(Xi, 0)))
        joined == Xi \o <<mx_j, my_j>>
    IN [Xi |-> joined,
        dict |-> [k \in (DOMAIN dict) \cup {m.marker_id} |->
                    IF k = m.marker_id THEN Len(joined) ELSE dict[k]]]

\* update_measurements joining only the x row of a new landmark
AppendOneRow(Xi, dict, m) ==
    IF m.marker_id \notin DOMAIN dict
    THEN LET mx_j == At(Xi, 1) + m.r * Cos(NormalizeAngle(m.phi + At(Xi, 0)))
             joined == Xi \o <<mx_j>>
         IN [Xi |-> joined,
             dict |-> [k \in (DOMAIN dict) \cup {m.marker_id} |->
                         IF k = m.marker_id THEN Len(joined) ELSE dict[k]]]
    ELSE [Xi |-> Xi, dict |-> dict]

\* update_measurements: the state vector and index map after the call
update_measurements(Xi, dict, m) ==
    IF m.marker_id \notin DOMAIN dict
    THEN LET mx_j == At(Xi, 1) + m.r * Cos(NormalizeAngle(m.phi + At(Xi, 0)))
             my_j == At(Xi, 2) + m.r * Sin(NormalizeAngle(m.phi + At(Xi, 0)))
             joined == Xi \o <<mx_j, my_j>>
         IN [Xi |-> joined,
             dict |-> [k \in (DOMAIN dict) \cup {m.marker_id} |->
                         IF k = m.marker_id THEN Len(joined) ELSE dict[k]]]
    ELSE [Xi |-> Xi, dict |-> dict]

\* the theoretical measurement h = (r_j, phi_j) of update, for reads that are
\* in bounds; every value the model stores lies on an axis through the pose,
\* so the square root and the arc tangent are exact
Norm2(dx, dy) == IF dx = 0 THEN (IF dy < 0 THEN 0 - dy ELSE dy)
                 ELSE (IF dx < 0 THEN 0 - dx ELSE dx)
Atan2(dy, dx) ==
    CASE dy = 0 /\ dx >= 0 -> 0
      [] dy = 0 /\ dx < 0 -> 2
      [] dy > 0 -> 1
      [] OTHER -> -1

TheoreticalMeasurement(Xi, index) ==
    LET mj == <<At(Xi, index), At(Xi, index + 1)>>
    IN [r |-> Norm2(mj[1] - At(Xi, 1), mj[2] - At(Xi, 2)),
        phi |-> NormalizeAngle(Atan2(mj[2] - At(Xi, 2), mj[1] - At(Xi, 1)) - At(Xi, 0))]

\* the loop of update from measurement i on.  st.n counts the measurements
\* update_measurements has run on; st.threw records std::out_of_range leaving
\* the call, which the element access raises in a build with arma_debug.
\* Without the checks an out-of-bounds read yields an indeterminate h, which
\* the code never stores.  The exception leaves the object as update_measurements
\* left it, so a caller that catches it can go on calling the filter.
RECURSIVE UpdateLoop(_, _, _, _)
UpdateLoop(st, ms, i, checked) ==
    IF i > Len(ms) THEN st
    ELSE LET a == update_measurements(st.Xi, st.dict, ms[i])
             index == a.dict[ms[i].marker_id]
             oob == ~InBounds(a.Xi, index) \/ ~InBounds(a.Xi, index + 1)
             next == [Xi |-> a.Xi, dict |-> a.dict, n |-> i, threw |-> oob /\ checked]
         IN IF next.threw THEN next ELSE UpdateLoop(next, ms, i + 1, checked)

\* how many of the first n measurements of ms carry an id first seen in them
FreshIn(ms, n, dict) == Cardinality({ms[i].marker_id : i \in 1..n} \ DOMAIN dict)

update(measurements) ==
    \E out \in {UpdateLoop([Xi |-> Xi_hat, dict |-> landmarks_dict, n |-> 0, threw |-> FALSE],
                           measurements, 1, arma_debug)} :
       /\ Xi_hat' = out.Xi
       /\ landmarks_dict' = out.dict
       /\ last_call' = [op |-> "update",
                        fresh |-> FreshIn(measurements, out.n, landmarks_dict),
                        known |-> out.n - FreshIn(measurements, out.n, landmarks_dict),
                        threw |-> out.threw]
       /\ UNCHANGED <<qt_hat, mt_hat, sigma_hat, Q_mat, arma_debug, nusim, otherNodes>>

\* ------------------------------------------------------------- accessors
pose_prediction == qt_hat
map_prediction == mt_hat
state_prediction == Xi_hat

\* --------------------------------------------------------- specification
Predict == \E V \in Twist2D : predict(V)
Update == \E measurements \in Batches : update(measurements)

Next == Predict \/ Update

Spec == Init /\ [][Next]_vars

\* ======================================================= nusim simulator
(***************************************************************************)
(* Model of the Nusim node (src/nusim/src/nusim.cpp).  nusim is a record   *)
(* of the node's members; each callback is an operator from the record     *)
(* before the call to the record after it.                                 *)
(*                                                                         *)
(* Number domain.  Wheel angles, speeds, noise and slip are whole numbers; *)
(* headings are quarter turns; positions are whole grid steps.  The wheel  *)
(* angle unit is the one for which a difference of one unit between the    *)
(* wheels turns the body a quarter turn, and half the track is two grid    *)
(* steps.  The wheel commands drawn are those whose motion is exact on the *)
(* grid: both wheels idle, or an arc (or spin) whose radius is a whole     *)
(* number of grid steps.  Obstacles sit on even grid points and the poses  *)
(* drawn for x0/y0 and teleport never have both coordinates odd, so every  *)
(* position within obstacles_r + COLLISION_RADIUS = 2 of an obstacle lies  *)
(* on an axis through its centre, where atan2, cos and sin are exact.      *)
(***************************************************************************)

\* ---------------------------------------------------------------- bounds
\* number of timer ticks a run may take
MaxStep == 2

\* ---------------------------------------------------------------- inputs
WheelCmdValues == {-1, 0, 1}
WheelCommands ==
    {c \in [left_velocity : WheelCmdValues, right_velocity : WheelCmdValues] :
        \/ c.left_velocity = 0 /\ c.right_velocity = 0
        \/ c.left_velocity = 0 /\ c.right_velocity = 1
        \/ c.left_velocity = 1 /\ c.right_velocity = 0
        \/ c.left_velocity = 1 /\ c.right_velocity = -1}
TeleportRequests ==
    { [x |-> 0, y |-> 0, theta |-> 0], [x |-> 1, y |-> 0, theta |-> 0],
      [x |-> 2, y |-> 0, theta |-> 0], [x |-> 0, y |-> 1, theta |-> 0] }
ObstacleLayouts ==
    { [x |-> <<>>, y |-> <<>>],
      [x |-> <<0>>, y |-> <<0>>] }
\* the node parameters a run may be launched with: every layout with no
\* noise and no slip, with slip only and with noise only; two obstacles with
\* no noise and no slip; and one launch for each missing conversion factor
NusimParameters ==
    { [layout |-> layout, slip_fraction |-> cfg[1], input_noise |-> cfg[2],
       motor_cmd_per_rad_sec |-> 1, motor_cmd_max |-> 1, encoder_ticks_per_rad |-> 1] :
         layout \in ObstacleLayouts, cfg \in {<<0, 0>>, <<1, 0>>, <<0, 1>>} }
    \cup
    { [layout |-> [x |-> <<0, 2>>, y |-> <<0, 0>>], slip_fraction |-> 0, input_noise |-> 0,
       motor_cmd_per_rad_sec |-> 1, motor_cmd_max |-> 1, encoder_ticks_per_rad |-> 1] }
    \cup
    { [layout |-> [x |-> <<>>, y |-> <<>>], slip_fraction |-> 0, input_noise |-> 0,
       motor_cmd_per_rad_sec |-> c[1], motor_cmd_max |-> c[2], encoder_ticks_per_rad |-> c[3]] :
         c \in {<<0, 1, 1>>, <<1, 0, 1>>, <<1, 1, 0>>} }
\* samples of std::normal_distribution(0, INPUT_NOISE)
NoiseSamples(input_noise) == {0, input_noise}
\* samples of a distribution reaching one beyond SLIP_FRACTION on either side
SlipSamplesWide(slip_fraction) == {0 - slip_fraction - 1, slip_fraction + 1}
\* samples of std::uniform_real_distribution(-SLIP_FRACTION, SLIP_FRACTION)
SlipSamples(slip_fraction) == {0 - slip_fraction, slip_fraction}

PATH_PUB_RATE == 100
HalfTrack == 2

\* ----------------------------------------------------------- constructor
\* the required-parameter checks without the one on encoder_ticks_per_rad
RequiredParametersButEncoder(motor_cmd_per_rad_sec, motor_cmd_max, encoder_ticks_per_rad) ==
    /\ ~AlmostEqual(motor_cmd_per_rad_sec, 0)
    /\ motor_cmd_max /= 0

\* the constructor passes its three checks and does not throw
RequiredParameters(motor_cmd_per_rad_sec, motor_cmd_max, encoder_ticks_per_rad) ==
    /\ ~AlmostEqual(motor_cmd_per_rad_sec, 0)
    /\ motor_cmd_max /= 0
    /\ ~AlmostEqual(encoder_ticks_per_rad, 0)

\* the node after its constructor ran with parameters p; callbacks holds the
\* subscription, services and timer the constructor got to create
NusimInit(p) ==
    [ obstacles_x |-> p.layout.x, obstacles_y |-> p.layout.y, obstacles_r |-> 1,
      COLLISION_RADIUS |-> 1,
      X0 |-> 4, Y0 |-> 0, THETA0 |-> 1,
      RATE |-> 1, MOTOR_CMD_PER_RAD_SEC |-> p.motor_cmd_per_rad_sec,
      MOTOR_CMD_MAX |-> p.motor_cmd_max,
      ENCODER_TICKS_PER_RAD |-> p.encoder_ticks_per_rad,
      SLIP_FRACTION |-> p.slip_fraction, INPUT_NOISE |-> p.input_noise,
      callbacks |-> IF RequiredParameters(p.motor_cmd_per_rad_sec, p.motor_cmd_max,
                                          p.encoder_ticks_per_rad)
                    THEN {"wheel_cmd", "reset", "teleport", "timer"}
                    ELSE {},
      step |-> 0, count |-> 0,
      left_noise |-> 0, right_noise |-> 0, left_slip |-> 0, right_slip |-> 0,
      noisy_wheel_speeds |-> [left |-> 0, right |-> 0],
      slippy_wheel_angles |-> [left |-> 0, right |-> 0],
      true_wheel_angles |-> [left |-> 0, right |-> 0],
      true_wheel_speeds |-> [left |-> 0, right |-> 0],
      true_pose |-> [x |-> 4, y |-> 0, theta |-> 1],
      ddrive |-> [left |-> 0, right |-> 0],
      sensor_data |-> [left_encoder |-> 0, right_encoder |-> 0],
      timestep_message |-> <<>> ]

SimInit ==
    /\ KalmanFilterInit
    /\ arma_debug = TRUE
    /\ nusim \in {NusimInit(p) : p \in NusimParameters}
    /\ slam = [op |-> "absent"]
    /\ circle = [op |-> "absent"]

\* ------------------------------------------------------ detect_collision
\* one pass of the loop body for the obstacle at (ox, oy), moving to
\* obstacles_r only
ResolveWithoutRobotRadius(pose, ox, oy, obstacles_r, collision_radius) ==
    LET dx == pose.x - ox
        dy == pose.y - oy
        reach == obstacles_r + collision_radius
    IN IF dx * dx + dy * dy <= reach * reach
       THEN [pose EXCEPT !.x = ox + Cos(Atan2(dy, dx)) * obstacles_r,
                         !.y = oy + Sin(Atan2(dy, dx)) * obstacles_r]
       ELSE pose

\* one pass of the loop body without the test dc <= 0
ResolveUntested(pose, ox, oy, obstacles_r, collision_radius) ==
    LET dx == pose.x - ox
        dy == pose.y - oy
        distance_to_move == obstacles_r + collision_radius
    IN [pose EXCEPT !.x = ox + Cos(Atan2(dy, dx)) * distance_to_move,
                    !.y = oy + Sin(Atan2(dy, dx)) * distance_to_move]

\* one pass of the loop body of detect_collision for the obstacle at (ox, oy);
\* dc <= 0 is decided on the squares of d and obstacles_r + COLLISION_RADIUS
ResolveCollision(pose, ox, oy, obstacles_r, collision_radius) ==
    LET dx == pose.x - ox
        dy == pose.y - oy
        distance_to_move == obstacles_r + collision_radius
    IN IF dx * dx + dy * dy <= distance_to_move * distance_to_move
       THEN [pose EXCEPT !.x = ox + Cos(Atan2(dy, dx)) * distance_to_move,
                         !.y = oy + Sin(Atan2(dy, dx)) * distance_to_move]
       ELSE pose

\* the loop testing every obstacle against the position the pass started from
RECURSIVE CollisionLoopFromStart(_, _, _)
CollisionLoopFromStart(s, pose, i) ==
    IF i > Len(s.obstacles_x) THEN pose
    ELSE LET dx == s.true_pose.x - s.obstacles_x[i]
             dy == s.true_pose.y - s.obstacles_y[i]
             reach == s.obstacles_r + s.COLLISION_RADIUS
         IN CollisionLoopFromStart(s,
                IF dx * dx + dy * dy <= reach * reach
                THEN [pose EXCEPT !.x = s.obstacles_x[i] + Cos(Atan2(dy, dx)) * reach,
                                  !.y = s.obstacles_y[i] + Sin(Atan2(dy, dx)) * reach]
                ELSE pose,
                i + 1)

RECURSIVE CollisionLoop(_, _, _)
CollisionLoop(s, pose, i) ==
    IF i > Len(s.obstacles_x) THEN pose
    ELSE CollisionLoop(s, ResolveCollision(pose, s.obstacles_x[i], s.obstacles_y[i],
                                           s.obstacles_r, s.COLLISION_RADIUS), i + 1)

detect_collision(s) == [s EXCEPT !.true_pose = CollisionLoop(s, s.true_pose, 1)]

\* ---------------------------------------------------- wheel_cmd_callback
\* the noisy speed of one wheel with the noise added to an idle wheel too
NoisySpeedAlways(velocity, motor_cmd_per_rad_sec, noise) ==
    (velocity * motor_cmd_per_rad_sec) + noise

\* the noisy speed of one wheel, given the sample the distribution would yield
NoisySpeed(velocity, motor_cmd_per_rad_sec, noise) ==
    IF AlmostEqual(velocity, 0)
    THEN velocity * motor_cmd_per_rad_sec
    ELSE (velocity * motor_cmd_per_rad_sec) + noise

\* nl, nr: noise samples; sl, sr: slip samples (each used only where the code draws)
wheel_cmd_callback(s, wheel_cmd, nl, nr, sl, sr) ==
    [s EXCEPT
        !.true_wheel_speeds = [left |-> wheel_cmd.left_velocity * s.MOTOR_CMD_PER_RAD_SEC,
                               right |-> wheel_cmd.right_velocity * s.MOTOR_CMD_PER_RAD_SEC],
        !.left_noise = IF AlmostEqual(wheel_cmd.left_velocity, 0) THEN @ ELSE nl,
        !.right_noise = IF AlmostEqual(wheel_cmd.right_velocity, 0) THEN @ ELSE nr,
        !.noisy_wheel_speeds =
            [left |-> NoisySpeed(wheel_cmd.left_velocity, s.MOTOR_CMD_PER_RAD_SEC, nl),
             right |-> NoisySpeed(wheel_cmd.right_velocity, s.MOTOR_CMD_PER_RAD_SEC, nr)],
        !.left_slip = IF AlmostEqual(s.SLIP_FRACTION, 0) THEN @ ELSE sl,
        !.right_slip = IF AlmostEqual(s.SLIP_FRACTION, 0) THEN @ ELSE sr ]

\* ------------------------------------------------------ reset / teleport
\* a reset that also clears the wheel angles
ResetWheelsToo(s) ==
    [s EXCEPT !.true_pose = [x |-> s.X0, y |-> s.Y0, theta |-> s.THETA0],
              !.true_wheel_angles = [left |-> 0, right |-> 0],
              !.slippy_wheel_angles = [left |-> 0, right |-> 0] ]

reset_callback(s) ==
    [s EXCEPT !.true_pose = [x |-> s.X0, y |-> s.Y0, theta |-> s.THETA0]]

teleport_callback(s, request) ==
    [s EXCEPT !.true_pose = [x |-> request.x, y |-> request.y, theta |-> request.theta]]

\* -------------------------------------------------------- timer_callback
\* DiffDrive::forward_kinematics(pose, wheel angles): the body moves by the
\* change of the wheel angles since the angles the DiffDrive remembers
forward_kinematics(pose, new_angles, old_angles) ==
    LET dl == new_angles.left - old_angles.left
        dr == new_angles.right - old_angles.right
        dtheta == dr - dl
        radius == IF dtheta = 0 THEN 0 ELSE (HalfTrack * (dl + dr)) \div dtheta
        bx == radius * Sin(dtheta)
        by == radius * (1 - Cos(dtheta))
    IN [x |-> pose.x + bx * Cos(pose.theta) - by * Sin(pose.theta),
        y |-> pose.y + bx * Sin(pose.theta) + by * Cos(pose.theta),
        theta |-> NormalizeAngle(pose.theta + dtheta)]

\* the new wheel angles, slipping wheel angles and encoder ticks
IntegrateWheels(s) ==
    LET true_angles == [left |-> s.true_wheel_angles.left
                                    + s.true_wheel_speeds.left \div s.RATE,
                        right |-> s.true_wheel_angles.right
                                    + s.true_wheel_speeds.right \div s.RATE]
        slippy == [left |-> s.slippy_wheel_angles.left
                               + (s.noisy_wheel_speeds.left * (1 + s.left_slip)) \div s.RATE,
                   right |-> s.slippy_wheel_angles.right
                               + (s.noisy_wheel_speeds.right * (1 + s.right_slip)) \div s.RATE]
    IN [s EXCEPT !.true_wheel_angles = true_angles,
                 !.slippy_wheel_angles = slippy,
                 !.sensor_data = [left_encoder |-> slippy.left * s.ENCODER_TICKS_PER_RAD,
                                  right_encoder |-> slippy.right * s.ENCODER_TICKS_PER_RAD]]

\* the pose moved with the slipping wheel angles instead of the true ones
MoveWithSlippyAngles(s) ==
    [s EXCEPT !.true_pose = forward_kinematics(s.true_pose, s.slippy_wheel_angles, s.ddrive),
              !.ddrive = s.slippy_wheel_angles]

\* true_pose = ddrive.forward_kinematics(true_pose, true_wheel_angles)
MoveTruePose(s) ==
    [s EXCEPT !.true_pose = forward_kinematics(s.true_pose, s.true_wheel_angles, s.ddrive),
              !.ddrive = s.true_wheel_angles]

\* timestep_message.data = step++, and the counter of the path publisher
PublishTick(s) ==
    [s EXCEPT !.timestep_message = <<s.step>>,
              !.step = s.step + 1,
              !.count = IF s.count >= PATH_PUB_RATE THEN 0 ELSE s.count + 1]

\* the tick without the call of detect_collision
TickWithoutCollision(s) == PublishTick(MoveTruePose(IntegrateWheels(s)))

timer_callback(s) == PublishTick(detect_collision(MoveTruePose(IntegrateWheels(s))))

\* ---------------------------------------------------------- simulator spec
WheelCmd ==
    /\ "wheel_cmd" \in nusim.callbacks
    /\ \E wheel_cmd \in WheelCommands :
       \E nl, nr \in NoiseSamples(nusim.INPUT_NOISE) :
       \E sl, sr \in SlipSamples(nusim.SLIP_FRACTION) :
          /\ nusim' = wheel_cmd_callback(nusim, wheel_cmd, nl, nr, sl, sr)
          /\ UNCHANGED <<ekfVars, otherNodes>>

Reset ==
    /\ "reset" \in nusim.callbacks
    /\ nusim' = reset_callback(nusim)
    /\ UNCHANGED <<ekfVars, otherNodes>>

Teleport ==
    /\ "teleport" \in nusim.callbacks
    /\ \E request \in TeleportRequests :
          nusim' = teleport_callback(nusim, request) /\ UNCHANGED <<ekfVars, otherNodes>>

Timer ==
    /\ "timer" \in nusim.callbacks
    /\ nusim.step < MaxStep
    /\ nusim' = timer_callback(nusim)
    /\ UNCHANGED <<ekfVars, otherNodes>>

SimNext == WheelCmd \/ Reset \/ Teleport \/ Timer

SpecSim == SimInit /\ [][SimNext]_vars


\* ========================================================== circle node
(***************************************************************************)
(* Model of the Circle node (src/nuturtle_control/src/circle.cpp).  circle *)
(* is a record of the node's members STOPPED and twist_msg, with cmd_vel   *)
(* the messages the node has published on its topic, of which the latest   *)
(* CmdVelDepth are kept.  Velocities and radii are whole numbers.          *)
(***************************************************************************)

\* ---------------------------------------------------------------- bounds
\* how many published messages the topic keeps
CmdVelDepth == 2

\* ---------------------------------------------------------------- inputs
ControlRequests == [velocity : {-1, 0, 2}, radius : {1, 2}]

ZeroTwistMsg ==
    [linear |-> [x |-> 0, y |-> 0, z |-> 0], angular |-> [x |-> 0, y |-> 0, z |-> 0]]

\* cmd_vel_pub->publish(msg)
Publish(topic, msg) ==
    IF Len(topic) < CmdVelDepth THEN Append(topic, msg) ELSE Append(Tail(topic), msg)

CircleNodeInit == [STOPPED |-> TRUE, twist_msg |-> ZeroTwistMsg, cmd_vel |-> <<>>]

CircleInit ==
    /\ KalmanFilterInit
    /\ arma_debug = TRUE
    /\ nusim = [op |-> "absent"]
    /\ slam = [op |-> "absent"]
    /\ circle = CircleNodeInit

\* -------------------------------------------------------------- callbacks
Circle_control_callback(c, request) ==
    [c EXCEPT !.STOPPED = FALSE,
              !.twist_msg = [linear |-> [x |-> request.velocity * request.radius,
                                         y |-> 0, z |-> 0],
                             angular |-> [x |-> 0, y |-> 0, z |-> request.velocity]]]

\* a reverse that negates the linear velocity only
Circle_reverse_linear_only(c) ==
    IF ~c.STOPPED
    THEN [c EXCEPT !.twist_msg.linear.x = 0 - c.twist_msg.linear.x]
    ELSE c

Circle_reverse_callback(c) ==
    IF ~c.STOPPED
    THEN [c EXCEPT !.twist_msg.linear.x = 0 - c.twist_msg.linear.x,
                   !.twist_msg.angular.z = 0 - c.twist_msg.angular.z]
    ELSE c

\* a stop that publishes a zero twist and leaves twist_msg as it was
Circle_stop_keeps_twist(c) ==
    [c EXCEPT !.STOPPED = TRUE,
              !.cmd_vel = Publish(c.cmd_vel, ZeroTwistMsg)]

Circle_stop_callback(c) ==
    [c EXCEPT !.STOPPED = TRUE,
              !.twist_msg = ZeroTwistMsg,
              !.cmd_vel = Publish(c.cmd_vel, ZeroTwistMsg)]

\* a tick that publishes whether or not the node is stopped
Circle_timer_always(c) == [c EXCEPT !.cmd_vel = Publish(c.cmd_vel, c.twist_msg)]

Circle_timer_callback(c) ==
    IF ~c.STOPPED
    THEN [c EXCEPT !.cmd_vel = Publish(c.cmd_vel, c.twist_msg)]
    ELSE c

\* ---------------------------------------------------------- circle spec
CircleControl ==
    \E request \in ControlRequests :
        /\ circle' = Circle_control_callback(circle, request)
        /\ UNCHANGED <<ekfVars, nusim, slam>>

CircleReverse ==
    /\ circle' = Circle_reverse_callback(circle)
    /\ UNCHANGED <<ekfVars, nusim, slam>>

CircleStop ==
    /\ circle' = Circle_stop_callback(circle)
    /\ UNCHANGED <<ekfVars, nusim, slam>>

CircleTimer ==
    /\ circle' = Circle_timer_callback(circle)
    /\ UNCHANGED <<ekfVars, nusim, slam>>

CircleNext == CircleControl \/ CircleReverse \/ CircleStop \/ CircleTimer

SpecCircle == CircleInit /\ [][CircleNext]_vars


\* ============================================================ slam node
(***************************************************************************)
(* Model of the Slam node (src/nuslam/src/slam.cpp).  slam is a record of  *)
(* the node's members, with map_odom_tf the transform the timer broadcast  *)
(* last and run_landmarks the measurements the filter was handed last.     *)
(* The node drives its filter through KalmanFilter::run, which             *)
(* kalman.cpp does not define: ekf_pose is the filter's pose estimate      *)
(* (theta, x, y), advanced by the motion model of the specification.       *)
(* Numbers are on the grid of the simulator: quarter turns, whole steps.   *)
(***************************************************************************)

\* ---------------------------------------------------------------- inputs
JointStates ==
    [position : {<<0, 0>>, <<0, 1>>}, velocity : {<<0, 0>>, <<0, 1>>}]
InitialPoseRequests == {[x |-> 0, y |-> 0, theta |-> 0], [x |-> 2, y |-> 0, theta |-> 1]}
\* the markers of one /fake_sensor message: position relative to the robot, id
MarkerArrays ==
    { <<>>,
      << [x |-> 1, y |-> 0, id |-> 5] >>,
      << [x |-> 1, y |-> 0, id |-> 5], [x |-> 0, y |-> 1, id |-> 6] >> }

\* ------------------------------------------------------------- transforms
\* Transform2D(vector, angle)
Transform2D(x, y, angle) == [x |-> x, y |-> y, theta |-> NormalizeAngle(angle)]
\* Transform2D::inv
Inv(T) ==
    [x |-> 0 - T.x * Cos(T.theta) - T.y * Sin(T.theta),
     y |-> T.x * Sin(T.theta) - T.y * Cos(T.theta),
     theta |-> NormalizeAngle(0 - T.theta)]
\* operator*(Transform2D, Transform2D)
Compose(A, B) ==
    [x |-> A.x + B.x * Cos(A.theta) - B.y * Sin(A.theta),
     y |-> A.y + B.x * Sin(A.theta) + B.y * Cos(A.theta),
     theta |-> NormalizeAngle(A.theta + B.theta)]

\* DiffDrive::body_twist(wheel speeds)
body_twist(speeds) ==
    [thetadot |-> speeds.right - speeds.left,
     xdot |-> <<0, HalfTrack * (speeds.left + speeds.right)>>]

from_cartesian(x, y, marker_id) ==
    [r |-> Norm2(x, y), phi |-> NormalizeAngle(Atan2(y, x)), marker_id |-> marker_id]

\* KalmanFilter::run(V, landmarks) followed by pose_prediction(): the pose
\* estimate moved along the arc of the twist; a zero twist leaves it
EkfRun(pose, V, measurements) ==
    IF V.thetadot = 0 /\ V.xdot = <<0, 0>> THEN pose ELSE PredictPose(pose, V)

\* ----------------------------------------------------------- constructor
SlamNodeInit ==
    [ pose_now |-> [x |-> 0, y |-> 0, theta |-> 0],
      wheel_angles_now |-> [left |-> 0, right |-> 0],
      wheel_speeds_now |-> [left |-> 0, right |-> 0],
      Vb_now |-> [thetadot |-> 0, xdot |-> <<0, 0>>],
      ddrive |-> [left |-> 0, right |-> 0],
      ekf_pose |-> ZeroCol(3),
      slam_pose_estimate |-> ZeroCol(3),
      landmarks |-> <<>>,
      run_landmarks |-> <<>>,
      map_odom_tf |-> <<>> ]

SlamInit ==
    /\ KalmanFilterInit
    /\ arma_debug = TRUE
    /\ nusim = [op |-> "absent"]
    /\ circle = [op |-> "absent"]
    /\ slam = SlamNodeInit

\* -------------------------------------------------------------- callbacks
Slam_init_pose_callback(s, request) ==
    [s EXCEPT !.pose_now = [x |-> request.x, y |-> request.y, theta |-> request.theta]]

Slam_joint_states_callback(s, js_data) ==
    LET angles == [left |-> js_data.position[1], right |-> js_data.position[2]]
        speeds == [left |-> js_data.velocity[1], right |-> js_data.velocity[2]]
    IN [s EXCEPT !.wheel_angles_now = angles,
                 !.wheel_speeds_now = speeds,
                 !.Vb_now = body_twist(speeds),
                 !.pose_now = forward_kinematics(s.pose_now, angles, s.ddrive),
                 !.ddrive = angles]

\* the landmark callback without landmarks.clear()
FakeSensorWithoutClear(s, marker_arr) ==
    LET buffer == s.landmarks \o
                    [i \in 1..Len(marker_arr) |->
                        from_cartesian(marker_arr[i].x, marker_arr[i].y, marker_arr[i].id)]
        estimate == EkfRun(s.ekf_pose, s.Vb_now, buffer)
    IN [s EXCEPT !.ekf_pose = estimate,
                 !.slam_pose_estimate = <<s.pose_now.theta, s.pose_now.x, s.pose_now.y>>,
                 !.landmarks = buffer,
                 !.run_landmarks = buffer]

Slam_fake_sensor_callback(s, marker_arr) ==
    LET buffer == s.landmarks \o
                    [i \in 1..Len(marker_arr) |->
                        from_cartesian(marker_arr[i].x, marker_arr[i].y, marker_arr[i].id)]
        estimate == EkfRun(s.ekf_pose, s.Vb_now, buffer)
    IN [s EXCEPT !.ekf_pose = estimate,
                 !.slam_pose_estimate = <<s.pose_now.theta, s.pose_now.x, s.pose_now.y>>,
                 !.landmarks = <<>>,
                 !.run_landmarks = buffer]

Slam_timer_callback(s) ==
    LET T_MB == Transform2D(At(s.slam_pose_estimate, 1), At(s.slam_pose_estimate, 2),
                            At(s.slam_pose_estimate, 0))
        T_OB == Transform2D(s.pose_now.x, s.pose_now.y, s.pose_now.theta)
    IN [s EXCEPT !.map_odom_tf = <<Compose(T_MB, Inv(T_OB))>>]

\* ------------------------------------------------------------ slam spec
SlamInitPose ==
    \E request \in InitialPoseRequests :
        /\ slam' = Slam_init_pose_callback(slam, request)
        /\ UNCHANGED <<ekfVars, nusim, circle>>

SlamJointStates ==
    \E js_data \in JointStates :
        /\ slam' = Slam_joint_states_callback(slam, js_data)
        /\ UNCHANGED <<ekfVars, nusim, circle>>

SlamFakeSensor ==
    \E marker_arr \in MarkerArrays :
        /\ slam' = Slam_fake_sensor_callback(slam, marker_arr)
        /\ UNCHANGED <<ekfVars, nusim, circle>>

SlamTimer ==
    /\ slam' = Slam_timer_callback(slam)
    /\ UNCHANGED <<ekfVars, nusim, circle>>

SlamNext == SlamInitPose \/ SlamJointStates \/ SlamFakeSensor \/ SlamTimer

SpecSlam == SlamInit /\ [][SlamNext]_vars


\* ================================================================ claims
\* the measurement z as update would compare it with h (to_mat)
to_mat(m) == [r |-> m.r, phi |-> NormalizeAngle(m.phi)]
\* the (x, y) blocks stored in Xi below the three pose rows, in order
LandmarkBlocks(Xi) == [j \in 1..((Len(Xi) - 3) \div 2) |-> <<Xi[2 + 2 * j], Xi[3 + 2 * j]>>]
\* the position of id among the ids of the index map, ordered by offset
Rank(dict, id) == Cardinality({k \in DOMAIN dict : dict[k] <= dict[id]})
ZeroTwist == [thetadot |-> 0, xdot |-> <<0, 0>>]

\* C1: an update call on a known landmark whose measurement z differs from the
\* expected measurement h (both the h the code computes from the rows its index
\* names and the h of the landmark's own block) changes the state estimate:
\* the gain, innovation and posterior update are applied.
C1_CorrectStepChangesState ==
    [][\A m \in LandmarkMeasurement :
          ( /\ update(<<m>>)
            /\ m.marker_id \in DOMAIN landmarks_dict
            /\ InBounds(Xi_hat, landmarks_dict[m.marker_id] + 1)
            /\ to_mat(m) /= TheoreticalMeasurement(Xi_hat, landmarks_dict[m.marker_id])
            /\ to_mat(m) /= TheoreticalMeasurement(Xi_hat, landmarks_dict[m.marker_id] - 2) )
          => Xi_hat' /= Xi_hat]_vars

\* C2: every id of the index map has an offset o with o >= 3 and o + 1 below
\* the number of rows of Xi_hat, so both rows read by update exist.
C2_OffsetsInBounds ==
    \A id \in DOMAIN landmarks_dict :
        landmarks_dict[id] >= 3 /\ landmarks_dict[id] + 1 < Len(Xi_hat)

\* C3: after update processes a measurement (r, phi, id) with an unseen id from
\* the pose (theta, x, y), the block the index map records for id holds
\* (x + r*cos(phi + theta), y + r*sin(phi + theta)).
C3_NewLandmarkBlock ==
    [][\A m \in LandmarkMeasurement :
          (update(<<m>>) /\ m.marker_id \notin DOMAIN landmarks_dict)
          => /\ m.marker_id \in DOMAIN landmarks_dict'
             /\ InBounds(Xi_hat', landmarks_dict'[m.marker_id] + 1)
             /\ At(Xi_hat', landmarks_dict'[m.marker_id])
                   = At(Xi_hat, 1) + m.r * Cos(m.phi + At(Xi_hat, 0))
             /\ At(Xi_hat', landmarks_dict'[m.marker_id] + 1)
                   = At(Xi_hat, 2) + m.r * Sin(m.phi + At(Xi_hat, 0))]_vars

\* C4: sigma_hat and Q_mat are square with as many rows as Xi_hat.
C4_CovarianceMatchesState ==
    /\ NRows(sigma_hat) = Len(Xi_hat) /\ NCols(sigma_hat) = Len(Xi_hat)
    /\ NRows(Q_mat) = Len(Xi_hat) /\ NCols(Q_mat) = Len(Xi_hat)

\* C5: Xi_hat never shrinks; an update call grows it by exactly two rows per
\* processed measurement with a previously unseen id, and a call that processed
\* only known ids leaves the size of Xi_hat and the index map unchanged.
C5_SizeMonotone ==
    [][ /\ Len(Xi_hat') >= Len(Xi_hat)
        /\ last_call'.op = "update" =>
              /\ Len(Xi_hat') = Len(Xi_hat) + 2 * last_call'.fresh
              /\ Cardinality(DOMAIN landmarks_dict')
                    = Cardinality(DOMAIN landmarks_dict) + last_call'.fresh
              /\ last_call'.fresh = 0 => landmarks_dict' = landmarks_dict
        /\ last_call'.op = "predict" =>
              Len(Xi_hat') = Len(Xi_hat) /\ landmarks_dict' = landmarks_dict ]_vars

\* an update call that initialised one landmark and re-observed a known one
C5_Witness ==
    /\ last_call.op = "update"
    /\ last_call.fresh > 0
    /\ last_call.known > 0

\* C6: an offset never changes once assigned, two ids never share or overlap a
\* block, and the j-th distinct id observed has the j-th block after the pose
\* rows (offset 3 + 2*(j-1)).
C6_OffsetsStableExclusiveOrdered ==
    [][ /\ \A id \in DOMAIN landmarks_dict :
              id \in DOMAIN landmarks_dict' /\ landmarks_dict'[id] = landmarks_dict[id]
        /\ \A a, b \in DOMAIN landmarks_dict' :
              a /= b => ( landmarks_dict'[a] + 1 < landmarks_dict'[b]
                          \/ landmarks_dict'[b] + 1 < landmarks_dict'[a] )
        /\ \A id \in DOMAIN landmarks_dict' :
              landmarks_dict'[id] = 3 + 2 * (Rank(landmarks_dict', id) - 1) ]_vars

\* C7: pose_prediction() equals the first three rows of state_prediction().
C7_PoseIsHeadOfState ==
    pose_prediction = SubSeq(state_prediction, 1, 3)

\* C8: map_prediction() holds exactly the landmark positions stored in Xi_hat
\* below the pose rows, one (x, y) column per id of the index map.
C8_MapIsLandmarkRows ==
    /\ Transpose(map_prediction) = LandmarkBlocks(state_prediction)
    /\ NCols(map_prediction) = Cardinality(DOMAIN landmarks_dict)

\* C9: a predict call whose thetadot is almost zero leaves the heading
\* reported by pose_prediction() as it was before the call.
C9_StraightKeepsHeading ==
    [][ (last_call'.op = "predict" /\ AlmostEqual(last_call'.V.thetadot, 0))
        => pose_prediction'[1] = pose_prediction[1] ]_vars

\* C10: predict with the zero twist leaves Xi_hat unchanged and no element of
\* sigma_hat larger than its previous value plus that of Q_mat; Q_mat being
\* zero, sigma_hat is unchanged.
C10_ZeroTwistFrame ==
    [][ (last_call'.op = "predict" /\ last_call'.V = ZeroTwist)
        => /\ Xi_hat' = Xi_hat
           /\ \A i \in 1..NRows(sigma_hat) : \A j \in 1..NCols(sigma_hat) :
                 sigma_hat'[i][j] <= sigma_hat[i][j] + Q_mat[i][j]
           /\ sigma_hat' = sigma_hat ]_vars

\* the zero twist has just been applied to a filter that holds a landmark
C10_Witness ==
    /\ last_call.op = "predict"
    /\ last_call.V = ZeroTwist
    /\ Len(Xi_hat) > 3

\* C11: predict leaves every landmark row of Xi_hat, the number of rows and the
\* index map unchanged, and the Jacobian it applies to sigma_hat has as many
\* rows and columns as Xi_hat and is the identity on the landmark rows and
\* columns.
C11_PredictLandmarksStatic ==
    [][ last_call'.op = "predict" =>
          LET A == PredictJacobian(Xi_hat, last_call'.V)
          IN /\ Len(Xi_hat') = Len(Xi_hat)
             /\ \A i \in 4..Len(Xi_hat) : Xi_hat'[i] = Xi_hat[i]
             /\ landmarks_dict' = landmarks_dict
             /\ NRows(A) = Len(Xi_hat) /\ NCols(A) = Len(Xi_hat)
             /\ \A i \in 1..Len(Xi_hat) : \A j \in 4..Len(Xi_hat) :
                   /\ A[i][j] = (IF i = j THEN 1 ELSE 0)
                   /\ A[j][i] = (IF i = j THEN 1 ELSE 0) ]_vars

\* C12: one update call processes its list in order, the first occurrence of
\* an unseen id initialising the landmark and later ones re-observing it, so
\* the call grows Xi_hat by exactly two rows per distinct unseen id of the list.
C12_BatchGrowsPerDistinctId ==
    [][ \A ms \in Batches :
          update(ms) =>
             /\ Len(Xi_hat') = Len(Xi_hat)
                   + 2 * Cardinality({ms[i].marker_id : i \in 1..Len(ms)} \ DOMAIN landmarks_dict)
             /\ DOMAIN landmarks_dict'
                   = DOMAIN landmarks_dict \cup {ms[i].marker_id : i \in 1..Len(ms)} ]_vars

C23_PredictComposes ==
    [][ last_call'.op = "predict" => qt_hat' = PredictPose(qt_hat, last_call'.V) ]_vars

\* C28: the state vector has three rows for the pose and two for each id in
\* the landmark index map.
C28_RowsMatchIndexMap ==
    Len(Xi_hat) = 3 + 2 * Cardinality(DOMAIN landmarks_dict)

\* an update call that re-observed a known id, with every id of the model in
\* the index map
C28_Witness ==
    /\ last_call.op = "update"
    /\ last_call.known > 0
    /\ DOMAIN landmarks_dict = MarkerIds

\* ------------------------------------------------- claims on the simulator
\* the state on which detect_collision runs within a tick
BeforeCollision(s) == MoveTruePose(IntegrateWheels(s))

\* the square of the distance from pose to obstacle i
DistanceSquared(s, pose, i) ==
    (pose.x - s.obstacles_x[i]) * (pose.x - s.obstacles_x[i])
        + (pose.y - s.obstacles_y[i]) * (pose.y - s.obstacles_y[i])

\* the square of obstacles_r + COLLISION_RADIUS
ReachSquared(s) ==
    (s.obstacles_r + s.COLLISION_RADIUS) * (s.obstacles_r + s.COLLISION_RADIUS)

InContact(s, pose, i) == DistanceSquared(s, pose, i) <= ReachSquared(s)

\* the wheel members of the node
WheelState(s) ==
    <<s.true_wheel_angles, s.slippy_wheel_angles, s.true_wheel_speeds,
      s.noisy_wheel_speeds, s.left_slip, s.right_slip, s.left_noise, s.right_noise>>

\* every position detect_collision can see in contact lies on an axis through
\* the obstacle centre, where Atan2, Cos and Sin are exact
CollisionsAxisAligned ==
    \A i \in 1..Len(nusim.obstacles_x) :
        InContact(nusim, BeforeCollision(nusim).true_pose, i) =>
            \/ BeforeCollision(nusim).true_pose.x = nusim.obstacles_x[i]
            \/ BeforeCollision(nusim).true_pose.y = nusim.obstacles_y[i]

\* C14: with a single obstacle, a tick whose pose before detect_collision is
\* within obstacles_r + COLLISION_RADIUS of the obstacle centre (touching and
\* centre on centre included) leaves the robot at exactly that distance,
\* and, when the robot was not on the centre, on the ray from the centre
\* through the robot's previous position.
C14_CollisionPostcondition ==
    [][ (nusim' = timer_callback(nusim) /\ Len(nusim.obstacles_x) = 1) =>
          LET pre == BeforeCollision(nusim).true_pose
              post == nusim'.true_pose
              ox == nusim.obstacles_x[1]
              oy == nusim.obstacles_y[1]
          IN InContact(nusim, pre, 1) =>
                /\ DistanceSquared(nusim, post, 1) = ReachSquared(nusim)
                /\ DistanceSquared(nusim, pre, 1) > 0 =>
                      /\ (pre.x - ox) * (post.y - oy) = (pre.y - oy) * (post.x - ox)
                      /\ (pre.x - ox) * (post.x - ox) + (pre.y - oy) * (post.y - oy) > 0
      ]_vars

\* a tick is about to resolve a collision from strictly inside the circle,
\* off the centre, after the robot has moved
C14_Witness ==
    /\ nusim.step < MaxStep
    /\ Len(nusim.obstacles_x) = 1
    /\ DistanceSquared(nusim, BeforeCollision(nusim).true_pose, 1) > 0
    /\ DistanceSquared(nusim, BeforeCollision(nusim).true_pose, 1) < ReachSquared(nusim)

\* C15: a tick in which no obstacle is in contact keeps the pose that the
\* kinematics produced; in every tick detect_collision changes nothing but
\* the position x, y: heading, wheel state and all other members are as the
\* tick without detect_collision leaves them.
C15_CollisionFrame ==
    [][ nusim' = timer_callback(nusim) =>
          LET pre == BeforeCollision(nusim)
          IN /\ (\A i \in 1..Len(nusim.obstacles_x) : ~InContact(nusim, pre.true_pose, i))
                    => nusim' = PublishTick(pre)
             /\ nusim'.true_pose.theta = pre.true_pose.theta
             /\ WheelState(nusim') = WheelState(pre)
             /\ nusim' = [PublishTick(pre) EXCEPT !.true_pose.x = nusim'.true_pose.x,
                                                   !.true_pose.y = nusim'.true_pose.y]
      ]_vars

\* a tick is about to move the robot with an obstacle present and out of contact
C15_Witness ==
    /\ nusim.step < MaxStep
    /\ Len(nusim.obstacles_x) = 1
    /\ ~InContact(nusim, BeforeCollision(nusim).true_pose, 1)
    /\ BeforeCollision(nusim).true_pose /= nusim.true_pose

\* C16: in a tick, a wheel whose command was not zero advances its true
\* wheel angle by the commanded speed plus the noise sample drawn for it,
\* that is by the noisy wheel speed.
C16_TrueSpeedIncludesNoise ==
    [][ nusim' = timer_callback(nusim) =>
          /\ ~AlmostEqual(nusim.true_wheel_speeds.left, 0) =>
                nusim'.true_wheel_angles.left = nusim.true_wheel_angles.left
                    + ((nusim.true_wheel_speeds.left + nusim.left_noise) \div nusim.RATE)
          /\ ~AlmostEqual(nusim.true_wheel_speeds.right, 0) =>
                nusim'.true_wheel_angles.right = nusim.true_wheel_angles.right
                    + ((nusim.true_wheel_speeds.right + nusim.right_noise) \div nusim.RATE)
      ]_vars

\* C17: after every call, a wheel whose most recent command is exactly zero
\* (its true speed, the command times MOTOR_CMD_PER_RAD_SEC, is zero) has a
\* noisy speed of zero whatever the other wheel is commanded; and a tick
\* taken while both wheels' commands are zero leaves the true wheel angles,
\* the slipping wheel angles and the encoder ticks as they were.
C17_IdleWheelNoiseFree ==
    [][ /\ nusim'.true_wheel_speeds.left = 0 => nusim'.noisy_wheel_speeds.left = 0
        /\ nusim'.true_wheel_speeds.right = 0 => nusim'.noisy_wheel_speeds.right = 0
        /\ ( /\ nusim' = timer_callback(nusim)
             /\ nusim.true_wheel_speeds = [left |-> 0, right |-> 0] ) =>
               /\ nusim'.true_wheel_angles = nusim.true_wheel_angles
               /\ nusim'.slippy_wheel_angles = nusim.slippy_wheel_angles
               /\ nusim'.sensor_data = nusim.sensor_data
      ]_vars

\* with noise configured, the left wheel idle and the right wheel driven with
\* a non-zero noise sample, ticks have run
C17_Witness ==
    /\ nusim.INPUT_NOISE /= 0
    /\ nusim.true_wheel_speeds.left = 0
    /\ nusim.true_wheel_speeds.right /= 0
    /\ nusim.right_noise /= 0
    /\ nusim.noisy_wheel_speeds.left = 0
    /\ nusim.step > 0

\* what two runs that differ only in slip must agree on: every member but the
\* slip setting, the slip samples, the slipping angles and the encoder ticks
NonSlip(s) ==
    [s EXCEPT !.SLIP_FRACTION = 0, !.left_slip = 0, !.right_slip = 0,
              !.slippy_wheel_angles = [left |-> 0, right |-> 0],
              !.sensor_data = [left_encoder |-> 0, right_encoder |-> 0]]

\* C18: slip cannot reach the true state.  From every reachable state, each
\* callback gives the same members outside the slip path as it gives from
\* the state with the slip path cleared, whatever slip samples are drawn; so
\* two runs of the same calls that differ only in slip agree on
\* true_wheel_angles and true_pose (and on everything outside the slip path)
\* after every call.
C18_SlipOnlyOnEncoderPath ==
    /\ NonSlip(timer_callback(nusim)) = NonSlip(timer_callback(NonSlip(nusim)))
    /\ NonSlip(reset_callback(nusim)) = NonSlip(reset_callback(NonSlip(nusim)))
    /\ \A request \in TeleportRequests :
          NonSlip(teleport_callback(nusim, request))
              = NonSlip(teleport_callback(NonSlip(nusim), request))
    /\ \A wheel_cmd \in WheelCommands :
       \A nl, nr \in NoiseSamples(nusim.INPUT_NOISE) :
       \A sl, sr \in SlipSamples(nusim.SLIP_FRACTION) :
          NonSlip(wheel_cmd_callback(nusim, wheel_cmd, nl, nr, sl, sr))
              = NonSlip(wheel_cmd_callback(NonSlip(nusim), wheel_cmd, nl, nr, 0, 0))

\* slip is configured and drawn, the slipping angles have left the true
\* angles, and the robot has been moved by a tick
C18_Witness ==
    /\ nusim.SLIP_FRACTION /= 0
    /\ nusim.left_slip /= 0
    /\ nusim.slippy_wheel_angles /= nusim.true_wheel_angles
    /\ nusim.true_wheel_angles /= [left |-> 0, right |-> 0]
    /\ nusim.step > 0
    /\ nusim.step < MaxStep

\* C19: reset puts the pose at (X0, Y0, THETA0) and teleport at the
\* requested pose, from any state, and both leave the true and slipping
\* wheel angles, the true and noisy wheel speeds and the slips as they were.
C19_ResetTeleportFrame ==
    [][ /\ nusim' = reset_callback(nusim) =>
              /\ nusim'.true_pose = [x |-> nusim.X0, y |-> nusim.Y0, theta |-> nusim.THETA0]
              /\ WheelState(nusim') = WheelState(nusim)
        /\ \A request \in TeleportRequests :
              nusim' = teleport_callback(nusim, request) =>
                 /\ nusim'.true_pose = request
                 /\ WheelState(nusim') = WheelState(nusim)
      ]_vars

\* a state away from the initial pose with the wheels turned, slip drawn and
\* the wheels still driven, in which reset and teleport are called
C19_Witness ==
    /\ nusim.true_pose /= [x |-> nusim.X0, y |-> nusim.Y0, theta |-> nusim.THETA0]
    /\ nusim.true_pose \notin TeleportRequests
    /\ nusim.true_wheel_angles /= [left |-> 0, right |-> 0]
    /\ nusim.slippy_wheel_angles /= [left |-> 0, right |-> 0]
    /\ nusim.true_wheel_speeds /= [left |-> 0, right |-> 0]
    /\ nusim.left_slip /= 0

\* C20: from every state, the tick that follows a reset publishes timestep 0.
C20_TickAfterResetPublishesZero ==
    timer_callback(reset_callback(nusim)).timestep_message = <<0>>

\* a launch with a missing conversion factor
Misconfigured(s) ==
    \/ AlmostEqual(s.MOTOR_CMD_PER_RAD_SEC, 0)
    \/ s.MOTOR_CMD_MAX = 0
    \/ AlmostEqual(s.ENCODER_TICKS_PER_RAD, 0)

\* C21: a simulator launched with motor_cmd_per_rad_sec, motor_cmd_max or
\* encoder_ticks_per_rad zero has no callback registered and takes no step:
\* every step of the simulator starts in a state with all three factors set
\* and leaves them set.
C21_ConfigErrorsFatal ==
    [][ /\ ~Misconfigured(nusim)
        /\ ~Misconfigured(nusim')
        /\ nusim.callbacks /= {} ]_vars

\* the constructor has thrown on encoder_ticks_per_rad, the last of its checks
C21_Witness ==
    /\ AlmostEqual(nusim.ENCODER_TICKS_PER_RAD, 0)
    /\ ~AlmostEqual(nusim.MOTOR_CMD_PER_RAD_SEC, 0)
    /\ nusim.MOTOR_CMD_MAX /= 0
    /\ nusim.callbacks = {}
    /\ nusim.step = 0

\* the position after the obstacles 1..i have been visited in index order,
\* each tested against the position its predecessors left
AfterObstacle(s, pose, i) ==
    LET p1 == IF i >= 1
              THEN ResolveCollision(pose, s.obstacles_x[1], s.obstacles_y[1],
                                    s.obstacles_r, s.COLLISION_RADIUS)
              ELSE pose
    IN IF i >= 2
       THEN ResolveCollision(p1, s.obstacles_x[2], s.obstacles_y[2],
                             s.obstacles_r, s.COLLISION_RADIUS)
       ELSE p1

\* every position the loop of detect_collision tests in contact lies on an
\* axis through the obstacle centre it is tested against
PassAxisAligned ==
    \A i \in 1..Len(nusim.obstacles_x) :
        LET p == AfterObstacle(nusim, BeforeCollision(nusim).true_pose, i - 1)
        IN InContact(nusim, p, i) => p.x = nusim.obstacles_x[i] \/ p.y = nusim.obstacles_y[i]

\* C24: the pose a tick leaves is the one obtained by visiting the obstacles
\* once in index order, each tested against the position left by the ones
\* before it; and the robot ends at exactly obstacles_r + COLLISION_RADIUS
\* from the last obstacle that was found in contact during the pass.
C24_SequentialPass ==
    [][ (nusim' = timer_callback(nusim) /\ Len(nusim.obstacles_x) <= 2) =>
          LET pre == BeforeCollision(nusim).true_pose
              n == Len(nusim.obstacles_x)
              hit == {i \in 1..n : InContact(nusim, AfterObstacle(nusim, pre, i - 1), i)}
          IN /\ nusim'.true_pose = AfterObstacle(nusim, pre, n)
             /\ \A i \in hit :
                   (\A j \in hit : j <= i) =>
                       DistanceSquared(nusim, nusim'.true_pose, i) = ReachSquared(nusim)
      ]_vars

\* a tick is about to push the robot out of the first obstacle into contact
\* with the second, which the position before the pass would have met from
\* the other side
C24_Witness ==
    /\ nusim.step < MaxStep
    /\ Len(nusim.obstacles_x) = 2
    /\ InContact(nusim, BeforeCollision(nusim).true_pose, 1)
    /\ InContact(nusim, AfterObstacle(nusim, BeforeCollision(nusim).true_pose, 1), 2)
    /\ AfterObstacle(nusim, BeforeCollision(nusim).true_pose, 2)
          /= ResolveCollision(BeforeCollision(nusim).true_pose,
                              nusim.obstacles_x[2], nusim.obstacles_y[2],
                              nusim.obstacles_r, nusim.COLLISION_RADIUS)

\* C25: with slip_fraction >= 0 both slips lie in [-slip_fraction,
\* slip_fraction] before and after every step; a wheel command with
\* slip_fraction non-zero stores slips from that range; with slip_fraction
\* zero the slips are 0 and a tick adds exactly the noisy wheel speeds (over
\* the rate) to the slipping wheel angles.
C25_SlipWithinRange ==
    [][ /\ nusim.SLIP_FRACTION >= 0 =>
              /\ 0 - nusim.SLIP_FRACTION <= nusim.left_slip
              /\ nusim.left_slip <= nusim.SLIP_FRACTION
              /\ 0 - nusim.SLIP_FRACTION <= nusim.right_slip
              /\ nusim.right_slip <= nusim.SLIP_FRACTION
              /\ 0 - nusim.SLIP_FRACTION <= nusim'.left_slip
              /\ nusim'.left_slip <= nusim.SLIP_FRACTION
              /\ 0 - nusim.SLIP_FRACTION <= nusim'.right_slip
              /\ nusim'.right_slip <= nusim.SLIP_FRACTION
        /\ AlmostEqual(nusim.SLIP_FRACTION, 0) =>
              /\ nusim'.left_slip = 0
              /\ nusim'.right_slip = 0
              /\ nusim' = timer_callback(nusim) =>
                    /\ nusim'.slippy_wheel_angles.left = nusim.slippy_wheel_angles.left
                          + (nusim.noisy_wheel_speeds.left \div nusim.RATE)
                    /\ nusim'.slippy_wheel_angles.right = nusim.slippy_wheel_angles.right
                          + (nusim.noisy_wheel_speeds.right \div nusim.RATE)
      ]_vars

\* slip is configured, both wheels have drawn a slip at the ends of the
\* range, with opposite signs, and a tick has integrated them
C25_Witness ==
    /\ nusim.SLIP_FRACTION > 0
    /\ nusim.left_slip = nusim.SLIP_FRACTION
    /\ nusim.right_slip = 0 - nusim.SLIP_FRACTION
    /\ nusim.slippy_wheel_angles.left /= nusim.true_wheel_angles.left
    /\ nusim.step > 0

\* C29: with exactly one obstacle, the position a tick leaves (the one it
\* broadcasts as nusim/world -> red/base_footprint) is at least
\* obstacles_r + COLLISION_RADIUS from the obstacle centre, whatever wheel
\* commands, resets and teleports came before the tick.
C29_BroadcastOutsideObstacle ==
    [][ (nusim' = timer_callback(nusim) /\ Len(nusim.obstacles_x) = 1) =>
            DistanceSquared(nusim, nusim'.true_pose, 1) >= ReachSquared(nusim) ]_vars

\* a teleport or reset has put the robot inside the collision circle since
\* the last tick, wheels turning, and a tick is about to run
C29_Witness ==
    /\ nusim.step > 0
    /\ nusim.step < MaxStep
    /\ Len(nusim.obstacles_x) = 1
    /\ DistanceSquared(nusim, nusim.true_pose, 1) < ReachSquared(nusim)
    /\ DistanceSquared(nusim, BeforeCollision(nusim).true_pose, 1) < ReachSquared(nusim)
    /\ nusim.true_wheel_speeds /= [left |-> 0, right |-> 0]

\* ------------------------------------------------ claims on the circle node
\* the twist with linear.x and angular.z negated
Reversed(twist) ==
    [twist EXCEPT !.linear.x = 0 - twist.linear.x, !.angular.z = 0 - twist.angular.z]

\* the twist control stores for a request
CircleTwist(request) ==
    [linear |-> [x |-> request.velocity * request.radius, y |-> 0, z |-> 0],
     angular |-> [x |-> 0, y |-> 0, z |-> request.velocity]]

\* C26: a stop publishes one all-zero twist; while STOPPED is true (from
\* construction or from a stop, until a control call) a timer tick publishes
\* nothing and a reverse call publishes nothing and leaves the twist as it
\* is, so the latest message on cmd_vel of a stopped node is the zero twist
\* of the stop; a reverse call never publishes.
C26_StoppedPublishesNothing ==
    [][ /\ circle' = Circle_stop_callback(circle) =>
              circle'.cmd_vel = Publish(circle.cmd_vel, ZeroTwistMsg)
        /\ (circle.STOPPED /\ circle' = Circle_timer_callback(circle)) =>
              circle'.cmd_vel = circle.cmd_vel
        /\ circle' = Circle_reverse_callback(circle) =>
              /\ circle'.cmd_vel = circle.cmd_vel
              /\ circle.STOPPED => circle'.twist_msg = circle.twist_msg
        /\ (circle'.STOPPED /\ circle'.cmd_vel /= <<>>) =>
              circle'.cmd_vel[Len(circle'.cmd_vel)] = ZeroTwistMsg
        /\ (circle.STOPPED /\ circle'.STOPPED) =>
              \/ circle'.cmd_vel = circle.cmd_vel
              \/ circle' = Circle_stop_callback(circle)
      ]_vars

\* the node ran backwards, published, and was stopped
C26_Witness ==
    /\ circle.STOPPED
    /\ Len(circle.cmd_vel) = CmdVelDepth
    /\ circle.cmd_vel[Len(circle.cmd_vel) - 1].angular.z < 0
    /\ circle.cmd_vel[Len(circle.cmd_vel)] = ZeroTwistMsg

\* C27: from every state, after control(v, r) the node runs and each tick
\* publishes the twist with linear.x = v * r, angular.z = v and zeros
\* elsewhere; a reverse then negates exactly linear.x and angular.z, leaves
\* STOPPED false and makes the ticks publish the negated twist, and a second
\* reverse restores the node; the same holds for reverse in every running
\* state.
C27_ControlAndReverse ==
    /\ \A request \in ControlRequests :
          LET c == Circle_control_callback(circle, request)
              t == CircleTwist(request)
              rv == Circle_reverse_callback(c)
          IN /\ ~c.STOPPED
             /\ c.twist_msg = t
             /\ Circle_timer_callback(c).cmd_vel = Publish(c.cmd_vel, t)
             /\ Circle_timer_callback(Circle_timer_callback(c)).cmd_vel
                   = Publish(Publish(c.cmd_vel, t), t)
             /\ ~rv.STOPPED
             /\ rv.twist_msg = Reversed(t)
             /\ rv.cmd_vel = c.cmd_vel
             /\ Circle_timer_callback(rv).cmd_vel = Publish(c.cmd_vel, Reversed(t))
             /\ Circle_reverse_callback(rv) = c
    /\ ~circle.STOPPED =>
          /\ Circle_reverse_callback(circle).twist_msg = Reversed(circle.twist_msg)
          /\ ~Circle_reverse_callback(circle).STOPPED
          /\ Circle_reverse_callback(Circle_reverse_callback(circle)) = circle

\* the node runs with a twist that is the reverse, non-zero, of the one it
\* published last
C27_Witness ==
    /\ ~circle.STOPPED
    /\ circle.cmd_vel /= <<>>
    /\ circle.twist_msg /= ZeroTwistMsg
    /\ circle.cmd_vel[Len(circle.cmd_vel)] = Reversed(circle.twist_msg)

\* C30: a stopped node stores the all-zero twist.
C30_StoppedTwistZero ==
    circle.STOPPED => circle.twist_msg = ZeroTwistMsg

\* the node published a non-zero twist and was then stopped
C30_Witness ==
    /\ circle.STOPPED
    /\ Len(circle.cmd_vel) = CmdVelDepth
    /\ circle.cmd_vel[1] /= ZeroTwistMsg
    /\ circle.cmd_vel[Len(circle.cmd_vel)] = ZeroTwistMsg

\* -------------------------------------------------- claims on the slam node
\* C22: the map -> odom_slam transform a timer tick broadcasts is
\* T_MB * inverse(T_OB) with T_MB the pose estimate of the filter as of the
\* last landmark callback and T_OB the odometry pose.
C22_MapOdomFromEkf ==
    [][ slam' = Slam_timer_callback(slam) =>
          slam'.map_odom_tf =
             << Compose(Transform2D(At(slam.ekf_pose, 1), At(slam.ekf_pose, 2),
                                    At(slam.ekf_pose, 0)),
                        Inv(Transform2D(slam.pose_now.x, slam.pose_now.y,
                                        slam.pose_now.theta))) >>
      ]_vars

\* the measurements of one /fake_sensor message, in message order
MeasurementsOf(marker_arr) ==
    [i \in 1..Len(marker_arr) |->
        from_cartesian(marker_arr[i].x, marker_arr[i].y, marker_arr[i].id)]

\* C31: the landmark buffer is empty before and after every callback of the
\* node, and a landmark callback hands the filter exactly the measurements
\* of its own message, in message order; the other callbacks hand the
\* filter nothing.
C31_BufferHoldsOneMessage ==
    [][ /\ slam.landmarks = <<>>
        /\ slam'.landmarks = <<>>
        /\ \A marker_arr \in MarkerArrays :
              slam' = Slam_fake_sensor_callback(slam, marker_arr) =>
                  slam'.run_landmarks = MeasurementsOf(marker_arr)
        /\ slam'.run_landmarks \in {MeasurementsOf(marker_arr) : marker_arr \in MarkerArrays}
        /\ (\A marker_arr \in MarkerArrays :
                slam' /= Slam_fake_sensor_callback(slam, marker_arr)) =>
              /\ slam'.run_landmarks = slam.run_landmarks
              /\ slam'.ekf_pose = slam.ekf_pose
      ]_vars

\* at least two landmark callbacks have run while the robot turned, the
\* latest on the one-marker message, with joint-state and timer callbacks
\* in between
C31_Witness ==
    /\ At(slam.ekf_pose, 0) = 2
    /\ Len(slam.run_landmarks) = 1
    /\ slam.map_odom_tf /= <<>>
    /\ slam.wheel_angles_now /= [left |-> 0, right |-> 0]

====
